---------------------------- MODULE Spec2Model ----------------------------
(***************************************************************************)
(* Maxwell potential operator factories (bempp/api/operators/potential/    *)
(* maxwell.py) and the two-sphere dielectric example that drives them      *)
(* (examples/maxwell/maxwell_dielectric.py).                               *)
(*                                                                         *)
(* Python objects live in heaps (descriptors, assemblers, operators):      *)
(* an object's identity is its index.  Objects owned by the caller (spaces,*)
(* point arrays, parameter sets, device handles) live in `objects` and are *)
(* passed to the factories by reference (by name).                         *)
(***************************************************************************)
EXTENDS Integers, Sequences, FiniteSets, TLC

VARIABLES
    pc,            \* position of the running client / script
    objects,       \* caller-owned objects, by name
    module_state,  \* module-level bindings of potential/maxwell.py
    descriptors,   \* heap of OperatorDescriptor objects
    assemblers,    \* heap of PotentialAssembler objects
    operators,     \* heap of PotentialOperator objects
    calls,         \* calls[i]: the factory call that returned operators[i]
    result,        \* outcome of the last call (returned value or raised error)
    writes         \* writes[n]: how often column n of total_field was assigned

heap == <<descriptors, assemblers, operators, calls>>
vars == <<pc, objects, module_state, descriptors, assemblers, operators,
          calls, result, writes>>

\* A position: a statement and, inside a loop or a run of like statements,
\* how many of them are done.
At(label, k) == [at |-> label, k |-> k]

(***************************************************************************)
(* Bounds of the model.                                                    *)
(***************************************************************************)
\* Factory calls that may succeed in one run of the construction client.
MaxOps == 2

(***************************************************************************)
(* Values.                                                                 *)
(***************************************************************************)
\* Python's None.
NULL == "None"
\* An optional argument the caller left out of the call.
NotPassed == "<not passed>"

\* A wavenumber is a Python float (kind "real") or a complex number.
RealK(x) == [kind |-> "real", re |-> x]
ComplexK(x, y) == [kind |-> "complex", re |-> x, im |-> y]

\* numpy.real / numpy.imag of a scalar: a float has no imaginary part
\* stored, numpy.imag yields 0 for it.
np_real(k) == k.re
np_imag(k) == IF k.kind = "complex" THEN k.im ELSE 0

\* Python's == on two wavenumbers (2.0 == 2+0j).
SameNumber(k1, k2) == np_real(k1) = np_real(k2) /\ np_imag(k1) = np_imag(k2)

(***************************************************************************)
(* Collaborators of the factories.                                         *)
(***************************************************************************)
\* OperatorDescriptor(identifier, options, kernel type, assembly type,
\* precision, is complex, singular part, kernel dimension): a value object.
OperatorDescriptor(identifier, options, kernel_type, assembly_type, precision, is_complex, singular_part, kernel_dimension) ==
    [identifier       |-> identifier,
     options          |-> options,
     kernel_type      |-> kernel_type,
     assembly_type    |-> assembly_type,
     precision        |-> precision,
     is_complex       |-> is_complex,
     singular_part    |-> singular_part,
     kernel_dimension |-> kernel_dimension]

\* Assembler names the assembler layer recognises.
RecognizedAssemblers == {"dense", "fmm"}

\* An evaluation point array is a sequence of columns; it is well formed
\* when it is not empty and every column is a 3-vector.
ValidPoints(p) ==
    /\ Len(p.cols) > 0
    /\ \A i \in 1..Len(p.cols) : Len(p.cols[i]) = 3

InvalidConfiguration == [status |-> "error", error |-> "InvalidConfiguration"]

\* What the caller sees of a call: the value returned or the error raised.
Returned(fn, args, value) ==
    [fn |-> fn, args |-> args, status |-> "returned", value |-> value]
Raised(fn, args, error) ==
    [fn |-> fn, args |-> args, status |-> "error", error |-> error]

\* PotentialAssembler(space, points, operator_descriptor, device_interface,
\* assembler_name, parameters): binds its arguments, unassembled; raises on
\* an unknown assembler name or a malformed point array.
PotentialAssembler(objs, space, points, operator_descriptor, device_interface, assembler_name, parameters) ==
    IF \/ assembler_name \notin RecognizedAssemblers
       \/ ~ValidPoints(objs[points])
    THEN InvalidConfiguration
    ELSE [status           |-> "ok",
          space            |-> space,
          points           |-> points,
          descriptor       |-> operator_descriptor,
          device_interface |-> device_interface,
          assembler_name   |-> assembler_name,
          parameters       |-> parameters,
          state            |-> "unassembled",
          assembly_runs    |-> 0,
          error            |-> NULL]

\* PotentialOperator(assembler): a wrapper holding one assembler.
PotentialOperator(assembler) == [assembler |-> assembler]

\* What an assembly attempt may end in: success or an assembly error.
AssemblyErrors == {"DeviceError", "OutOfMemory"}
AssemblyOutcomes == {"ok"} \cup AssemblyErrors

\* An assembler that runs the assembly again after it has failed.
EnsureAssembled_retry(asm, outcome) ==
    IF asm.state = "assembled" THEN asm
    ELSE IF outcome = "ok"
         THEN [asm EXCEPT !.state = "assembled",
                          !.assembly_runs = asm.assembly_runs + 1]
         ELSE [asm EXCEPT !.state = "faulted",
                          !.assembly_runs = asm.assembly_runs + 1,
                          !.error = outcome]

\* The assembler after apply has made sure it is assembled: an unassembled
\* one runs the assembly (which ends in `outcome`) and keeps what came of
\* it; an assembled or faulted one is left alone.
EnsureAssembled(asm, outcome) ==
    IF asm.state # "unassembled" THEN asm
    ELSE IF outcome = "ok"
         THEN [asm EXCEPT !.state = "assembled",
                          !.assembly_runs = asm.assembly_runs + 1]
         ELSE [asm EXCEPT !.state = "faulted",
                          !.assembly_runs = asm.assembly_runs + 1,
                          !.error = outcome]

\* PotentialAssembler.apply(x): assembles on first use, then multiplies.
\* Yields the assembler afterwards and the field values or the error.
Apply(objs, asm, x, outcome) ==
    LET after == EnsureAssembled(asm, outcome)
    IN  [assembler |-> after,
         status    |-> IF after.state = "faulted"
                          \/ Len(x) # objs[asm.space].dofs
                       THEN "error" ELSE "returned",
         error     |-> IF after.state = "faulted" THEN after.error
                       ELSE "DimensionMismatch",
         value     |-> [kind     |-> "field_values",
                        operator |-> asm.descriptor,
                        points   |-> Len(objs[asm.points].cols),
                        x        |-> x]]

(***************************************************************************)
(* potential/maxwell.py                                                    *)
(***************************************************************************)
\* Defaults of the optional parameters in the two signatures.
electric_field_defaults ==
    [parameters |-> NULL, assembler |-> "dense",
     device_interface |-> NULL, precision |-> NULL]

magnetic_field_defaults ==
    [parameters |-> NULL, assembler |-> "dense",
     device_interface |-> NULL, precision |-> NULL]

\* Python's binding of a call's arguments to the signature.
Bind(raw, defaults) ==
    [f \in DOMAIN raw |->
        IF f \in DOMAIN defaults /\ raw[f] = NotPassed
        THEN defaults[f] ELSE raw[f]]

\* electric_field with the option list in the wrong order.
electric_field_descriptor_swapped(wavenumber, precision) ==
    OperatorDescriptor(
        "maxwell_electric_field_potential",
        <<np_imag(wavenumber), np_real(wavenumber)>>,
        "helmholtz_single_layer",
        "maxwell_electric_field",
        precision, TRUE, NULL, 3)

\* electric_field marking the operator complex only for a lossy medium.
electric_field_descriptor_lossy(wavenumber, precision) ==
    OperatorDescriptor(
        "maxwell_electric_field_potential",
        <<np_real(wavenumber), np_imag(wavenumber)>>,
        "helmholtz_single_layer",
        "maxwell_electric_field",
        precision, np_imag(wavenumber) # 0, NULL, 3)

\* The descriptor electric_field builds.
electric_field_descriptor(wavenumber, precision) ==
    OperatorDescriptor(
        "maxwell_electric_field_potential",
        <<np_real(wavenumber), np_imag(wavenumber)>>,
        "helmholtz_single_layer",
        "maxwell_electric_field",
        precision,
        TRUE,
        NULL,
        3)

\* magnetic_field pasted from electric_field with the assembly type kept.
magnetic_field_descriptor_pasted(wavenumber, precision) ==
    OperatorDescriptor(
        "maxwell_magnetic_field_potential",
        <<np_real(wavenumber), np_imag(wavenumber)>>,
        "helmholtz_single_layer",
        "maxwell_electric_field",
        precision, TRUE, NULL, 3)

\* The descriptor magnetic_field builds.
magnetic_field_descriptor(wavenumber, precision) ==
    OperatorDescriptor(
        "maxwell_magnetic_field_potential",
        <<np_real(wavenumber), np_imag(wavenumber)>>,
        "helmholtz_single_layer",
        "maxwell_magnetic_field",
        precision,
        TRUE,
        NULL,
        3)

\* electric_field ignoring the caller's assembler name.
electric_field_assembler_args_dense(space, points, operator_descriptor, parameters, assembler, device_interface) ==
    <<space, points, operator_descriptor, device_interface, "dense",
      parameters>>

\* The positional arguments electric_field hands to PotentialAssembler.
electric_field_assembler_args(space, points, operator_descriptor, parameters, assembler, device_interface) ==
    <<space, points, operator_descriptor, device_interface, assembler,
      parameters>>

\* magnetic_field forwarding in the order of its own signature.
magnetic_field_assembler_args_signature(space, points, operator_descriptor, parameters, assembler, device_interface) ==
    <<space, points, operator_descriptor, parameters, assembler,
      device_interface>>

\* The positional arguments magnetic_field hands to PotentialAssembler.
magnetic_field_assembler_args(space, points, operator_descriptor, parameters, assembler, device_interface) ==
    <<space, points, operator_descriptor, device_interface, assembler,
      parameters>>

FactoryNames == {"electric_field", "magnetic_field"}

Defaults(fn) ==
    IF fn = "electric_field" THEN electric_field_defaults
    ELSE magnetic_field_defaults

\* The descriptor taking its precision from the device when one is given.
Descriptor_by_device(fn, a) ==
    LET p == IF a.device_interface # NULL THEN "double" ELSE a.precision
    IN  IF fn = "electric_field"
        THEN electric_field_descriptor(a.wavenumber, p)
        ELSE magnetic_field_descriptor(a.wavenumber, p)

Descriptor(fn, a) ==
    IF fn = "electric_field"
    THEN electric_field_descriptor(a.wavenumber, a.precision)
    ELSE magnetic_field_descriptor(a.wavenumber, a.precision)

AssemblerArgs(fn, a, d) ==
    IF fn = "electric_field"
    THEN electric_field_assembler_args(a.space, a.points, d, a.parameters,
                                       a.assembler, a.device_interface)
    ELSE magnetic_field_assembler_args(a.space, a.points, d, a.parameters,
                                       a.assembler, a.device_interface)

\* A descriptor cache: once a descriptor exists it is handed out again.
NewDescriptor_cached(heapd, d) ==
    IF Len(heapd) > 0 THEN heapd ELSE Append(heapd, d)

\* Construction of a new descriptor object: a fresh heap cell.
NewDescriptor(heapd, d) == Append(heapd, d)

\* One call fn(**raw): the whole body of the factory.  The descriptor is
\* built first; if the assembler constructor raises, the exception leaves
\* the factory and the descriptor is unreachable garbage.
Factory(fn, raw) ==
    LET a     == Bind(raw, Defaults(fn))
        heapd == NewDescriptor(descriptors, Descriptor(fn, a))
        pos   == AssemblerArgs(fn, a, Len(heapd))
        asm   == PotentialAssembler(objects, pos[1], pos[2], pos[3], pos[4],
                                    pos[5], pos[6])
    IN  IF asm.status = "error"
        THEN /\ result' = Raised(fn, raw, asm.error)
             /\ UNCHANGED heap
        ELSE /\ descriptors' = heapd
             /\ assemblers' = Append(assemblers, asm)
             /\ operators' =
                    Append(operators, PotentialOperator(Len(assemblers) + 1))
             /\ calls' = Append(calls, [fn |-> fn, args |-> raw])
             /\ result' = Returned(fn, raw, Len(operators) + 1)

(***************************************************************************)
(* A client that constructs operators with arbitrary arguments.            *)
(***************************************************************************)
ClientObjects ==
    [space0    |-> [kind |-> "space", grid |-> "sphere0", dofs |-> 2],
     space1    |-> [kind |-> "space", grid |-> "sphere1", dofs |-> 2],
     pts       |-> [kind |-> "points", cols |-> << <<0, 0, 5>>, <<0, 5, 0>> >>],
     pts_far   |-> [kind |-> "points", cols |-> << <<9, 9, 9>> >>],
     pts_empty |-> [kind |-> "points", cols |-> << >>],
     pts_2d    |-> [kind |-> "points", cols |-> << <<0, 5>>, <<5, 0>> >>],
     prm       |-> [kind |-> "parameters", quadrature_order |-> 4],
     dev       |-> [kind |-> "device", name |-> "cpu0"]]

Wavenumbers == {RealK(2), ComplexK(2, 0), ComplexK(1, 3)}

\* Arguments the client may pass.  The first set varies what the descriptor
\* is built from, the second what is forwarded to the assembler, the third
\* what the assembler may reject.
DescriptorArgs ==
    [space            : {"space0", "space1"},
     points           : {"pts"},
     wavenumber       : Wavenumbers,
     parameters       : {NotPassed},
     assembler        : {NotPassed},
     device_interface : {NotPassed},
     precision        : {NotPassed, "single"}]

ForwardedArgs ==
    [space            : {"space1"},
     points           : {"pts_far"},
     wavenumber       : {ComplexK(1, 3)},
     parameters       : {NotPassed, "prm"},
     assembler        : {NotPassed, "fmm"},
     device_interface : {NotPassed, "dev"},
     precision        : {"single"}]

RejectedArgs ==
    [space            : {"space0"},
     points           : {"pts", "pts_empty", "pts_2d"},
     wavenumber       : {RealK(2)},
     parameters       : {NotPassed},
     assembler        : {NotPassed, "bogus"},
     device_interface : {NotPassed},
     precision        : {NotPassed}]

ClientArgs == DescriptorArgs \cup ForwardedArgs \cup RejectedArgs

InitHeap ==
    /\ module_state = [_np |-> "numpy"]
    /\ descriptors = << >>
    /\ assemblers = << >>
    /\ operators = << >>
    /\ calls = << >>
    /\ result = [status |-> "none"]

Init ==
    /\ pc = At("client", 0)
    /\ objects = ClientObjects
    /\ writes = << >>
    /\ InitHeap

CallElectric ==
    /\ pc = At("client", 0)
    /\ Len(operators) < MaxOps
    /\ \E raw \in ClientArgs : Factory("electric_field", raw)
    /\ UNCHANGED <<pc, objects, module_state, writes>>

CallMagnetic ==
    /\ pc = At("client", 0)
    /\ Len(operators) < MaxOps
    /\ \E raw \in ClientArgs : Factory("magnetic_field", raw)
    /\ UNCHANGED <<pc, objects, module_state, writes>>

Next == CallElectric \/ CallMagnetic

Spec == Init /\ [][Next]_vars

(***************************************************************************)
(* A client that constructs operators and applies them repeatedly.         *)
(***************************************************************************)
LifecycleArgs ==
    [space            : {"space0"},
     points           : {"pts"},
     wavenumber       : {RealK(2)},
     parameters       : {NotPassed},
     assembler        : {NotPassed},
     device_interface : {NotPassed},
     precision        : {NotPassed}]

\* Coefficient vectors: two of the space's size, one too long.
CoefficientVectors == {<<1, 0>>, <<0, 1>>, <<1, 0, 1>>}

Construct ==
    /\ pc = At("client", 0)
    /\ Len(operators) < MaxOps
    /\ \E fn \in FactoryNames : \E raw \in LifecycleArgs : Factory(fn, raw)
    /\ UNCHANGED <<pc, objects, module_state, writes>>

\* operator * x on one of the operators built so far.
ApplyOperator ==
    /\ pc = At("client", 0)
    /\ \E i \in 1..Len(operators) :
       \E x \in CoefficientVectors :
       \E outcome \in AssemblyOutcomes :
          LET id == operators[i].assembler
              r  == Apply(objects, assemblers[id], x, outcome)
              ar == [operator |-> i, x |-> x]
          IN  /\ assemblers' = [assemblers EXCEPT ![id] = r.assembler]
              /\ result' = IF r.status = "error"
                           THEN Raised("apply", ar, r.error)
                           ELSE Returned("apply", ar, r.value)
    /\ UNCHANGED <<pc, objects, module_state, descriptors, operators, calls,
                   writes>>

NextLifecycle == Construct \/ ApplyOperator

SpecLifecycle == Init /\ [][NextLifecycle]_vars

(***************************************************************************)
(* Collaborators of the example.                                           *)
(***************************************************************************)
\* The trace spaces of a grid: one per row of a multitrace operator, and
\* the spaces dual to them.
TraceSpaces ==
    [sphere0 |-> <<"rwg0_sphere0", "rwg1_sphere0">>,
     sphere1 |-> <<"rwg0_sphere1", "rwg1_sphere1">>]
DualSpaces ==
    [sphere0 |-> <<"snc0_sphere0", "snc1_sphere0">>,
     sphere1 |-> <<"snc0_sphere1", "snc1_sphere1">>]

SpaceObject(grid, family) ==
    [kind |-> "space", grid |-> grid, family |-> family, dofs |-> 2]

\* The space objects the multitrace operators of a grid are defined on.
SpacesOn(grid) ==
    (TraceSpaces[grid][1] :> SpaceObject(grid, "RWG"))
    @@ (TraceSpaces[grid][2] :> SpaceObject(grid, "RWG"))
    @@ (DualSpaces[grid][1] :> SpaceObject(grid, "SNC"))
    @@ (DualSpaces[grid][2] :> SpaceObject(grid, "SNC"))

\* multitrace_operator(grid, k, target=...): a 2-by-2 block operator from
\* the trace spaces of grid to those of target.
multitrace_operator(grid, target) ==
    [status               |-> "ok",
     domain_spaces        |-> TraceSpaces[grid],
     range_spaces         |-> TraceSpaces[target],
     dual_to_range_spaces |-> DualSpaces[target]]

ShapeMismatch == [status |-> "error", error |-> "ShapeMismatch"]

\* X + Y for two block operators on the same spaces.
OperatorSum(X, Y) == IF X = Y THEN X ELSE ShapeMismatch

\* GeneralizedBlockedOperator(rows): every block of a row shares the row's
\* range and dual space, every block of a column the column's domain space.
GeneralizedBlockedOperator(rows) ==
    IF \/ \E r \in 1..Len(rows) : \E c \in 1..Len(rows[r]) :
             rows[r][c].status = "error"
       \/ \E r \in 1..Len(rows) : \E c \in 1..Len(rows[r]) :
             \/ rows[r][c].range_spaces # rows[r][1].range_spaces
             \/ rows[r][c].dual_to_range_spaces
                   # rows[r][1].dual_to_range_spaces
             \/ Len(rows[r]) # Len(rows[1])
             \/ rows[r][c].domain_spaces # rows[1][c].domain_spaces
    THEN ShapeMismatch
    ELSE [status               |-> "ok",
          domain_spaces        |-> rows[1][1].domain_spaces
                                      \o rows[1][2].domain_spaces,
          range_spaces         |-> rows[1][1].range_spaces
                                      \o rows[2][1].range_spaces,
          dual_to_range_spaces |-> rows[1][1].dual_to_range_spaces
                                      \o rows[2][1].dual_to_range_spaces]

\* GridFunction(space=..., dual_space=..., fun=...): the projection of fun.
GridFunction(objs, space, dual_space, fun) ==
    [space        |-> space,
     dual_space   |-> dual_space,
     coefficients |-> [d \in 1..objs[space].dofs |-> fun]]

\* What a solve may end in.
SolveOutcomes == {"ok", "SingularMatrix"}

\* bempp.api.linalg.lu(A, rhs): one GridFunction per block of A, each in
\* the block's domain space.
lu(objs, A, rhs) ==
    [i \in 1..Len(A.domain_spaces) |->
        [space        |-> A.domain_spaces[i],
         dual_space   |-> NULL,
         coefficients |-> [d \in 1..objs[A.domain_spaces[i]].dofs |-> i]]]

\* far_field.maxwell.electric_field / magnetic_field(space, points, k).
far_field_operator(fn, space, points, wavenumber) ==
    [fn |-> fn, space |-> space, points |-> points,
     wavenumber |-> wavenumber]

(***************************************************************************)
(* examples/maxwell/maxwell_dielectric.py                                  *)
(***************************************************************************)
\* Largest number of grid points per direction (the script uses 200).
MaxGrid == 6
\* Number of far-field directions (the script uses 400).
MaxAngles == 2

\* Element i of a Python list.
Item(list, i) == list[i + 1]

\* Bind a Python variable.
Let(objs, name, value) == (name :> value) @@ objs

\* Wavenumbers of the exterior and of the spheres, rounded to integers
\* (k_ext = 6.28..., k_int = 9.11...).
k_ext == RealK(6)
k_int == RealK(9)

\* The left-hand side A: the 2-by-2 arrangement of multitrace operators.
A_blocks ==
    LET A0_int == multitrace_operator("sphere0", "sphere0")
        A1_int == multitrace_operator("sphere1", "sphere1")
        A0_ext == multitrace_operator("sphere0", "sphere0")
        A1_ext == multitrace_operator("sphere1", "sphere1")
        A01    == multitrace_operator("sphere1", "sphere0")
        A10    == multitrace_operator("sphere0", "sphere1")
    IN  << <<OperatorSum(A0_int, A0_ext), A01>>,
           <<A10, OperatorSum(A1_int, A1_ext)>> >>

\* The right-hand sides, on A.range_spaces[i] with A.dual_to_range_spaces[i].
rhs_of(objs, A) ==
    <<GridFunction(objs, Item(A.range_spaces, 0),
                   Item(A.dual_to_range_spaces, 0), "tangential_trace"),
      GridFunction(objs, Item(A.range_spaces, 1),
                   Item(A.dual_to_range_spaces, 1), "neumann_trace"),
      GridFunction(objs, Item(A.range_spaces, 2),
                   Item(A.dual_to_range_spaces, 2), "tangential_trace"),
      GridFunction(objs, Item(A.range_spaces, 3),
                   Item(A.dual_to_range_spaces, 3), "neumann_trace")>>

\* Sample i of n evenly spaced samples of [-2, 2], as a fraction
\* Sample(n, i) / Steps(n)   (np.mgrid[-2:2:n*1j]).
Steps(n) == IF n = 1 THEN 1 ELSE n - 1
Sample(n, i) == IF n = 1 THEN -2 ELSE 4 * i - 2 * (n - 1)

\* points = vstack((x.ravel(), y.ravel(), z.ravel())) of the mgrid: column
\* i * ny + j is (x_i, y_j, 0).  Coordinates are stored times `scale`.
mgrid_points(nx, ny) ==
    [kind  |-> "points",
     scale |-> Steps(nx) * Steps(ny),
     cols  |-> [n \in 1..(nx * ny) |->
                  <<Sample(nx, (n - 1) \div ny) * Steps(ny),
                    Sample(ny, (n - 1) % ny) * Steps(nx),
                    0>>]]

\* sum((points - centre)**2, axis=0) of one column, times scale^2.
DistanceSq(col, centre, scale) ==
    (col[1] - centre[1] * scale) * (col[1] - centre[1] * scale)
    + (col[2] - centre[2] * scale) * (col[2] - centre[2] * scale)
    + (col[3] - centre[3] * scale) * (col[3] - centre[3] * scale)

\* distance^2 < .4**2, in exact arithmetic (.4**2 = 4/25).
Inside(col, centre, scale) ==
    25 * DistanceSq(col, centre, scale) < 4 * scale * scale

\* A point exactly on the sphere: the floating point comparison may go
\* either way.
OnSphere(col, centre, scale) ==
    25 * DistanceSq(col, centre, scale) = 4 * scale * scale

Columns(p) == 1..Len(p.cols)
Ties(p, centre) == {n \in Columns(p) : OnSphere(p.cols[n], centre, p.scale)}

centre0 == <<-1, 0, 0>>
centre1 == <<1, 0, 0>>

\* interior_indices0: the mask of the points inside sphere 0; `rounded_in`
\* are the points on the sphere that rounding puts inside.
interior_indices0(p, rounded_in) ==
    [n \in Columns(p) |->
        Inside(p.cols[n], centre0, p.scale) \/ n \in rounded_in]

\* interior_indices1: the mask of the points inside sphere 1.
interior_indices1(p, rounded_in) ==
    [n \in Columns(p) |->
        Inside(p.cols[n], centre1, p.scale) \/ n \in rounded_in]

\* The exterior mask with the second sphere forgotten.
exterior_indices_first_only(m0, m1) ==
    [n \in 1..Len(m0) |-> ~m0[n]]

\* exterior_indices = ~interior_indices0 & ~interior_indices1
exterior_indices(m0, m1) ==
    [n \in 1..Len(m0) |-> ~m0[n] /\ ~m1[n]]

\* Boolean-mask indexing.
Rank(mask, n) == Cardinality({m \in 1..n : mask[m]})
Count(mask) == Rank(mask, Len(mask))
Position(mask, k) == CHOOSE n \in 1..Len(mask) : mask[n] /\ Rank(mask, n) = k

\* array[:, mask]
Select(cols, mask) == [k \in 1..Count(mask) |-> cols[Position(mask, k)]]

\* array[:, mask] = values
MaskAssign(cols, mask, values) ==
    [n \in 1..Len(cols) |->
        IF mask[n] THEN values[Rank(mask, n)] ELSE cols[n]]

PointsObject(p, mask) ==
    [kind |-> "points", scale |-> p.scale, cols |-> Select(p.cols, mask)]

\* The eight potential operators, in the order the script builds them:
\* variable, factory, index into sol, point array, wavenumber.
potential_calls_swapped ==
    <<[var |-> "mpot0_int", fn |-> "magnetic_field", sol |-> 1,
       points |-> "int_points0", k |-> k_int],
      [var |-> "epot0_int", fn |-> "electric_field", sol |-> 0,
       points |-> "int_points0", k |-> k_int],
      [var |-> "mpot0_ext", fn |-> "magnetic_field", sol |-> 1,
       points |-> "ext_points", k |-> k_ext],
      [var |-> "epot0_ext", fn |-> "electric_field", sol |-> 0,
       points |-> "ext_points", k |-> k_ext],
      [var |-> "mpot1_int", fn |-> "magnetic_field", sol |-> 3,
       points |-> "int_points1", k |-> k_int],
      [var |-> "epot1_int", fn |-> "electric_field", sol |-> 2,
       points |-> "int_points1", k |-> k_int],
      [var |-> "mpot1_ext", fn |-> "magnetic_field", sol |-> 3,
       points |-> "ext_points", k |-> k_ext],
      [var |-> "epot1_ext", fn |-> "electric_field", sol |-> 2,
       points |-> "ext_points", k |-> k_ext]>>

potential_calls ==
    <<[var |-> "mpot0_int", fn |-> "magnetic_field", sol |-> 0,
       points |-> "int_points0", k |-> k_int],
      [var |-> "epot0_int", fn |-> "electric_field", sol |-> 1,
       points |-> "int_points0", k |-> k_int],
      [var |-> "mpot0_ext", fn |-> "magnetic_field", sol |-> 0,
       points |-> "ext_points", k |-> k_ext],
      [var |-> "epot0_ext", fn |-> "electric_field", sol |-> 1,
       points |-> "ext_points", k |-> k_ext],
      [var |-> "mpot1_int", fn |-> "magnetic_field", sol |-> 2,
       points |-> "int_points1", k |-> k_int],
      [var |-> "epot1_int", fn |-> "electric_field", sol |-> 3,
       points |-> "int_points1", k |-> k_int],
      [var |-> "mpot1_ext", fn |-> "magnetic_field", sol |-> 2,
       points |-> "ext_points", k |-> k_ext],
      [var |-> "epot1_ext", fn |-> "electric_field", sol |-> 3,
       points |-> "ext_points", k |-> k_ext]>>

\* The four evaluation statements: target variable, the two products
\* operator * sol[i] in evaluation order, and whether it is a +=.
evaluations ==
    <<[var |-> "exterior_values", add |-> FALSE,
       first  |-> [op |-> "epot0_ext", sol |-> 1],
       second |-> [op |-> "mpot0_ext", sol |-> 0]],
      [var |-> "exterior_values", add |-> TRUE,
       first  |-> [op |-> "epot1_ext", sol |-> 3],
       second |-> [op |-> "mpot1_ext", sol |-> 2]],
      [var |-> "interior_values0", add |-> FALSE,
       first  |-> [op |-> "epot0_int", sol |-> 1],
       second |-> [op |-> "mpot0_int", sol |-> 0]],
      [var |-> "interior_values1", add |-> FALSE,
       first  |-> [op |-> "epot1_int", sol |-> 3],
       second |-> [op |-> "mpot1_int", sol |-> 2]]>>

NaN == [kind |-> "nan"]
\* A column of np.empty: whatever the memory held.
Uninitialised == [kind |-> "uninitialised"]
plane_wave(point) == [kind |-> "plane_wave", at |-> point]
\* scattered + incident
FieldSum(a, b) == [kind |-> "sum", of |-> <<a, b>>]

\* The values operator * g yields: one per evaluation point.
FieldValues(objs, asm) ==
    [n \in 1..Len(objs[asm.points].cols) |->
        [kind  |-> "field",
         at    |-> objs[asm.points].cols[n],
         terms |-> {asm.descriptor}]]

\* operator * g for a grid function g: g must live in the operator's space.
Product(objs, asms, id, g, outcome) ==
    IF g.space # asms[id].space
    THEN [assemblers |-> asms, status |-> "error",
          error |-> "IncompatibleDomain", value |-> << >>]
    ELSE LET r == Apply(objs, asms[id], g.coefficients, outcome)
         IN  [assemblers |-> [asms EXCEPT ![id] = r.assembler],
              status     |-> r.status,
              error      |-> r.error,
              value      |-> FieldValues(objs, asms[id])]

\* v1 + v2 of two arrays of field values of the same shape.
Superpose(v1, v2) ==
    [n \in 1..Len(v1) |-> [v1[n] EXCEPT !.terms = @ \cup v2[n].terms]]

\* The spaces the two far-field operators of scatterer i are built on.
far_field_indices(i) == [electric |-> 2 * i + 1, magnetic |-> 2 * i]

InitExample ==
    /\ pc = At("operators", 0)
    /\ objects = [sphere0 |-> [kind |-> "grid", origin |-> centre0],
                  sphere1 |-> [kind |-> "grid", origin |-> centre1]]
    /\ writes = << >>
    /\ InitHeap

\* The script stops with an exception.
Fail(fn, args, error) ==
    /\ pc' = At("failed", 0)
    /\ result' = Raised(fn, args, error)

\* The multitrace operators and the blocked operator A.
BuildOperators ==
    /\ pc = At("operators", 0)
    /\ LET A == GeneralizedBlockedOperator(A_blocks)
       IN  IF A.status = "error"
           THEN Fail("GeneralizedBlockedOperator", NULL, A.error)
                /\ UNCHANGED objects
           ELSE /\ objects' = Let(SpacesOn("sphere0") @@ SpacesOn("sphere1")
                                     @@ objects, "A", A)
                /\ pc' = At("rhs", 0)
                /\ UNCHANGED result
    /\ UNCHANGED <<module_state, descriptors, assemblers, operators, calls,
                   writes>>

\* rhs = [GridFunction(...), ...]
BuildRhs ==
    /\ pc = At("rhs", 0)
    /\ objects' = Let(objects, "rhs", rhs_of(objects, objects.A))
    /\ pc' = At("solve", 0)
    /\ UNCHANGED <<module_state, descriptors, assemblers, operators, calls,
                   result, writes>>

\* sol = bempp.api.linalg.lu(A, rhs)
Solve ==
    /\ pc = At("solve", 0)
    /\ \E outcome \in SolveOutcomes :
          IF outcome = "ok"
          THEN /\ objects' =
                     Let(objects, "sol", lu(objects, objects.A, objects.rhs))
               /\ pc' = At("grid", 0)
               /\ result' = Returned("lu", NULL, "sol")
          ELSE Fail("lu", NULL, outcome) /\ UNCHANGED objects
    /\ UNCHANGED <<module_state, descriptors, assemblers, operators, calls,
                   writes>>

\* The evaluation points, the three masks and the three point subsets.
Grid ==
    /\ pc = At("grid", 0)
    /\ \E nx \in 1..MaxGrid : \E ny \in 1..MaxGrid :
       LET p == mgrid_points(nx, ny)
       IN  \E r0 \in SUBSET Ties(p, centre0) :
           \E r1 \in SUBSET Ties(p, centre1) :
           LET m0 == interior_indices0(p, r0)
               m1 == interior_indices1(p, r1)
               me == exterior_indices(m0, m1)
           IN  objects' =
                  [nx |-> nx, ny |-> ny, points |-> p,
                   interior_indices0 |-> m0,
                   interior_indices1 |-> m1,
                   exterior_indices  |-> me,
                   ext_points  |-> PointsObject(p, me),
                   int_points0 |-> PointsObject(p, m0),
                   int_points1 |-> PointsObject(p, m1)] @@ objects
    /\ pc' = At("potential", 0)
    /\ UNCHANGED <<module_state, descriptors, assemblers, operators, calls,
                   result, writes>>

\* One of the eight statements  var = ...maxwell.fn(sol[i].space, pts, k).
BuildPotential ==
    /\ pc.at = "potential"
    /\ LET c   == potential_calls[pc.k + 1]
           raw == [space            |-> Item(objects.sol, c.sol).space,
                   points           |-> c.points,
                   wavenumber       |-> c.k,
                   parameters       |-> NotPassed,
                   assembler        |-> NotPassed,
                   device_interface |-> NotPassed,
                   precision        |-> NotPassed]
       IN  /\ Factory(c.fn, raw)
           /\ IF result'.status = "error"
              THEN pc' = At("failed", 0) /\ UNCHANGED objects
              ELSE /\ objects' = Let(objects, c.var, result'.value)
                   /\ pc' = IF pc.k + 1 = Len(potential_calls)
                            THEN At("evaluate", 0)
                            ELSE At("potential", pc.k + 1)
    /\ UNCHANGED <<module_state, writes>>

\* One of the four statements  var = a * sol[i] + b * sol[j].
Evaluate ==
    /\ pc.at = "evaluate"
    /\ \E o1 \in AssemblyOutcomes : \E o2 \in AssemblyOutcomes :
       LET e  == evaluations[pc.k + 1]
           r1 == Product(objects, assemblers,
                         operators[objects[e.first.op]].assembler,
                         Item(objects.sol, e.first.sol), o1)
           r2 == Product(objects, r1.assemblers,
                         operators[objects[e.second.op]].assembler,
                         Item(objects.sol, e.second.sol), o2)
           ok == /\ Len(r1.value) = Len(r2.value)
                 /\ e.add => Len(objects[e.var]) = Len(r1.value)
           v  == Superpose(r1.value, r2.value)
       IN  IF r1.status = "error"
           THEN /\ assemblers' = r1.assemblers
                /\ Fail("apply", e.first, r1.error)
                /\ UNCHANGED objects
           ELSE IF r2.status = "error"
           THEN /\ assemblers' = r2.assemblers
                /\ Fail("apply", e.second, r2.error)
                /\ UNCHANGED objects
           ELSE IF ~ok
           THEN /\ assemblers' = r2.assemblers
                /\ Fail("add", e.second, "ShapeMismatch")
                /\ UNCHANGED objects
           ELSE /\ assemblers' = r2.assemblers
                /\ objects' = Let(objects, e.var,
                                  IF e.add THEN Superpose(objects[e.var], v)
                                  ELSE v)
                /\ result' = Returned("apply", e.second, e.var)
                /\ pc' = IF pc.k + 1 = Len(evaluations)
                         THEN At("scattered", 0)
                         ELSE At("evaluate", pc.k + 1)
    /\ UNCHANGED <<module_state, descriptors, operators, calls, writes>>

\* scattered_field: NaN everywhere, then the exterior values.
Scattered ==
    /\ pc = At("scattered", 0)
    /\ IF Count(objects.exterior_indices) # Len(objects.exterior_values)
       THEN Fail("setitem", "scattered_field", "ShapeMismatch")
            /\ UNCHANGED objects
       ELSE /\ objects' =
                  Let(objects, "scattered_field",
                      MaskAssign([n \in Columns(objects.points) |-> NaN],
                                 objects.exterior_indices,
                                 objects.exterior_values))
            /\ pc' = At("total", 0)
            /\ UNCHANGED result
    /\ UNCHANGED <<module_state, descriptors, assemblers, operators, calls,
                   writes>>

\* total_field = np.empty(...)
AllocTotal ==
    /\ pc = At("total", 0)
    /\ objects' = Let(objects, "total_field",
                      [n \in Columns(objects.points) |-> Uninitialised])
    /\ writes' = [n \in Columns(objects.points) |-> 0]
    /\ pc' = At("ext_loop", 0)
    /\ UNCHANGED <<module_state, descriptors, assemblers, operators, calls,
                   result>>

\* One iteration of the loop over the exterior indices.
ExteriorLoop ==
    /\ pc.at = "ext_loop"
    /\ pc.k < Count(objects.exterior_indices)
    /\ LET ext_ind == Position(objects.exterior_indices, pc.k + 1) - 1
           value   == FieldSum(Item(objects.scattered_field, ext_ind),
                               plane_wave(Item(objects.points.cols, ext_ind)))
       IN  /\ objects' =
                 Let(objects, "total_field",
                     [objects.total_field EXCEPT ![ext_ind + 1] = value])
           /\ writes' = [writes EXCEPT ![ext_ind + 1] = @ + 1]
    /\ pc' = At("ext_loop", pc.k + 1)
    /\ UNCHANGED <<module_state, descriptors, assemblers, operators, calls,
                   result>>

\* total_field[:, interior_indices0] = interior_values0, once the loop ends.
AssignInterior0 ==
    /\ pc.at = "ext_loop"
    /\ pc.k = Count(objects.exterior_indices)
    /\ IF Count(objects.interior_indices0) # Len(objects.interior_values0)
       THEN Fail("setitem", "total_field", "ShapeMismatch")
            /\ UNCHANGED <<objects, writes>>
       ELSE /\ objects' =
                  Let(objects, "total_field",
                      MaskAssign(objects.total_field,
                                 objects.interior_indices0,
                                 objects.interior_values0))
            /\ writes' = [n \in 1..Len(writes) |->
                            IF objects.interior_indices0[n]
                            THEN writes[n] + 1 ELSE writes[n]]
            /\ pc' = At("interior1", 0)
            /\ UNCHANGED result
    /\ UNCHANGED <<module_state, descriptors, assemblers, operators, calls>>

\* total_field[:, interior_indices1] = interior_values1
AssignInterior1 ==
    /\ pc = At("interior1", 0)
    /\ IF Count(objects.interior_indices1) # Len(objects.interior_values1)
       THEN Fail("setitem", "total_field", "ShapeMismatch")
            /\ UNCHANGED <<objects, writes>>
       ELSE /\ objects' =
                  Let(objects, "total_field",
                      MaskAssign(objects.total_field,
                                 objects.interior_indices1,
                                 objects.interior_values1))
            /\ writes' = [n \in 1..Len(writes) |->
                            IF objects.interior_indices1[n]
                            THEN writes[n] + 1 ELSE writes[n]]
            /\ pc' = At("angles", 0)
            /\ UNCHANGED result
    /\ UNCHANGED <<module_state, descriptors, assemblers, operators, calls>>

\* unit_points: the directions of the far field (stand-in coordinates).
Angles ==
    /\ pc = At("angles", 0)
    /\ \E number_of_angles \in 1..MaxAngles :
          objects' = Let(objects, "unit_points",
                         [kind  |-> "points", scale |-> 1,
                          cols  |-> [a \in 1..number_of_angles |->
                                        <<a, a, 0>>]])
    /\ pc' = At("far_field", 0)
    /\ UNCHANGED <<module_state, descriptors, assemblers, operators, calls,
                   result, writes>>

\* One iteration of  for i in range(2).
FarField ==
    /\ pc.at = "far_field"
    /\ LET i  == pc.k
           ix == far_field_indices(i)
       IN  objects' =
              [i |-> i,
               electric_far |->
                  far_field_operator("electric_field",
                                     Item(objects.sol, ix.electric).space,
                                     "unit_points", k_ext),
               magnetic_far |->
                  far_field_operator("magnetic_field",
                                     Item(objects.sol, ix.magnetic).space,
                                     "unit_points", k_ext)] @@ objects
    /\ pc' = IF pc.k + 1 = 2 THEN At("done", 0) ELSE At("far_field", pc.k + 1)
    /\ UNCHANGED <<module_state, descriptors, assemblers, operators, calls,
                   result, writes>>

NextExample ==
    \/ BuildOperators \/ BuildRhs \/ Solve \/ Grid \/ BuildPotential
    \/ Evaluate \/ Scattered \/ AllocTotal \/ ExteriorLoop
    \/ AssignInterior0 \/ AssignInterior1 \/ Angles \/ FarField

SpecExample == InitExample /\ [][NextExample]_vars

(***************************************************************************)
(* Properties of the factories.                                            *)
(***************************************************************************)
Ops == 1..Len(operators)
AssemblerOf(i) == assemblers[operators[i].assembler]
DescriptorOf(i) == descriptors[AssemblerOf(i).descriptor]
ArgsOf(i) == calls[i].args

\* Real and imaginary part of a wavenumber, as mathematics has them.
RePart(k) == k.re
ImPart(k) == IF k.kind = "real" THEN 0 ELSE k.im

\* What an optional argument stands for in a call.
Passed(v, default) == IF v = NotPassed THEN default ELSE v

\* C1: the option list of every descriptor built by electric_field or
\* magnetic_field is exactly the two-element sequence [Re(k), Im(k)] of the
\* call's wavenumber k: two integers, real part first.
C1_OptionsAreRealImag ==
    \A i \in Ops :
        LET k == ArgsOf(i).wavenumber
            o == DescriptorOf(i).options
        IN  /\ Len(o) = 2
            /\ o[1] \in Int /\ o[2] \in Int
            /\ o[1] = RePart(k)
            /\ o[2] = ImPart(k)

\* C1 witness: both factories have built a descriptor from 1+3i, and its
\* options are <<1, 3>>.
C1_Witness ==
    /\ \E i \in Ops : /\ calls[i].fn = "electric_field"
                      /\ ArgsOf(i).wavenumber = ComplexK(1, 3)
                      /\ DescriptorOf(i).options = <<1, 3>>
    /\ \E i \in Ops : /\ calls[i].fn = "magnetic_field"
                      /\ ArgsOf(i).wavenumber = ComplexK(1, 3)
                      /\ DescriptorOf(i).options = <<1, 3>>

\* The fields of a descriptor other than identifier and assembly type.
SharedFields(d) ==
    <<d.options, d.kernel_type, d.precision, d.is_complex, d.singular_part,
      d.kernel_dimension>>

\* C2: an electric and a magnetic descriptor carry the same kernel type
\* "helmholtz_single_layer", the assembly types "maxwell_electric_field" and
\* "maxwell_magnetic_field" (so the assembly type tells which factory built
\* it) and different identifiers; built from the same wavenumber and
\* precision they differ in no other field.
C2_ElectricVsMagnetic ==
    /\ \A i \in Ops :
          /\ DescriptorOf(i).kernel_type = "helmholtz_single_layer"
          /\ (DescriptorOf(i).assembly_type = "maxwell_electric_field")
                <=> (calls[i].fn = "electric_field")
          /\ (DescriptorOf(i).assembly_type = "maxwell_magnetic_field")
                <=> (calls[i].fn = "magnetic_field")
    /\ \A i, j \in Ops :
          (calls[i].fn = "electric_field" /\ calls[j].fn = "magnetic_field")
          => /\ DescriptorOf(i).identifier # DescriptorOf(j).identifier
             /\ DescriptorOf(i).assembly_type # DescriptorOf(j).assembly_type
             /\ (/\ SameNumber(ArgsOf(i).wavenumber, ArgsOf(j).wavenumber)
                 /\ ArgsOf(i).precision = ArgsOf(j).precision)
                => SharedFields(DescriptorOf(i)) = SharedFields(DescriptorOf(j))

\* C2 witness: an electric and a magnetic operator built from the same
\* wavenumber and precision.
C2_Witness ==
    \E i, j \in Ops :
        /\ calls[i].fn = "electric_field"
        /\ calls[j].fn = "magnetic_field"
        /\ ArgsOf(i).wavenumber = ArgsOf(j).wavenumber
        /\ ArgsOf(i).precision = "single"
        /\ ArgsOf(j).precision = "single"

\* C3: every descriptor is complex, has no singular part and has kernel
\* dimension 3, whatever the wavenumber, precision and assembler name.
C3_FixedFields ==
    \A i \in Ops :
        /\ DescriptorOf(i).is_complex = TRUE
        /\ DescriptorOf(i).singular_part = NULL
        /\ DescriptorOf(i).kernel_dimension = 3

\* C3 witness: an operator built from a real wavenumber with a precision
\* given, and one built with a non-default assembler.
C3_Witness ==
    /\ \E i \in Ops : /\ ArgsOf(i).wavenumber.kind = "real"
                      /\ ArgsOf(i).precision = "single"
                      /\ calls[i].fn = "electric_field"
    /\ \E i \in Ops : AssemblerOf(i).assembler_name = "fmm"

\* The configurations the assembler layer rejects, in the caller's terms.
BadConfiguration(fn, raw) ==
    \/ Passed(raw.assembler, "dense") \notin {"dense", "fmm"}
    \/ objects[raw.points].cols = << >>
    \/ \E c \in 1..Len(objects[raw.points].cols) :
          Len(objects[raw.points].cols[c]) # 3

\* C4: a call of either factory with an unrecognised assembler name, or
\* with an empty or wrongly shaped point array, raises the
\* invalid-configuration error: no operator is returned.
C4_InvalidConfigurationRaises ==
    (result.status # "none" /\ result.fn \in FactoryNames
        /\ BadConfiguration(result.fn, result.args))
    => /\ result.status = "error"
       /\ result.error = "InvalidConfiguration"
       /\ \A i \in Ops : calls[i] # [fn |-> result.fn, args |-> result.args]

\* C4 witness: calls with an unknown assembler, with an empty point array
\* and with 2-d points have each failed after an earlier call succeeded.
C4_Witness ==
    /\ result.status = "error"
    /\ result.error = "InvalidConfiguration"
    /\ result.args.assembler = "bogus"
    /\ result.args.points = "pts"
    /\ Len(operators) = 1

\* C6: two calls of the same factory with the same wavenumber and precision
\* build descriptors equal in every field, whatever the other arguments.
C6_SameTupleSameDescriptor ==
    \A i, j \in Ops :
        (/\ calls[i].fn = calls[j].fn
         /\ SameNumber(ArgsOf(i).wavenumber, ArgsOf(j).wavenumber)
         /\ ArgsOf(i).precision = ArgsOf(j).precision)
        => DescriptorOf(i) = DescriptorOf(j)

\* C6 witness: two calls of one factory with the same wavenumber and
\* precision and different space, points, parameters, assembler and device.
C6_Witness ==
    \E i, j \in Ops :
        /\ i # j
        /\ ArgsOf(i).space # ArgsOf(j).space
        /\ ArgsOf(i).points # ArgsOf(j).points
        /\ calls[i].fn = calls[j].fn
        /\ ArgsOf(i).wavenumber = ArgsOf(j).wavenumber
        /\ ArgsOf(i).precision = ArgsOf(j).precision
        /\ ArgsOf(i).parameters # ArgsOf(j).parameters
        /\ ArgsOf(i).assembler # ArgsOf(j).assembler
        /\ ArgsOf(i).device_interface # ArgsOf(j).device_interface

IsPrefix(s, t) == Len(s) <= Len(t) /\ \A i \in 1..Len(s) : t[i] = s[i]

\* C7: a factory call changes neither the caller's objects nor the module
\* state nor any existing descriptor, assembler or operator; when it
\* returns, exactly one operator, one assembler and one descriptor are new,
\* the operator wraps the new assembler and the assembler holds the new
\* descriptor.
C7_ConstructionIsPure ==
    [][/\ objects' = objects
       /\ module_state' = module_state
       /\ IsPrefix(descriptors, descriptors')
       /\ IsPrefix(assemblers, assemblers')
       /\ IsPrefix(operators, operators')
       /\ \/ /\ Len(operators') = Len(operators)
             /\ Len(assemblers') = Len(assemblers)
             /\ Len(descriptors') = Len(descriptors)
          \/ /\ Len(operators') = Len(operators) + 1
             /\ Len(assemblers') = Len(assemblers) + 1
             /\ Len(descriptors') = Len(descriptors) + 1
             /\ operators'[Len(operators')].assembler = Len(assemblers')
             /\ assemblers'[Len(assemblers')].descriptor = Len(descriptors')
      ]_vars

\* C7 witness: two operators exist, on different assemblers and descriptors.
C7_Witness ==
    /\ Len(operators) = 2
    /\ operators[1].assembler # operators[2].assembler
    /\ AssemblerOf(1).descriptor # AssemblerOf(2).descriptor

\* C9: the assembler holds the caller's space, points, device handle,
\* assembler name and parameters, each in its own slot, with "dense", None
\* and None standing for the ones left out; the precision is stored on the
\* descriptor as given, None when left out.
C9_ArgumentsForwarded ==
    \A i \in Ops :
        LET a == AssemblerOf(i)
            c == ArgsOf(i)
        IN  /\ a.space = c.space
            /\ a.points = c.points
            /\ a.device_interface = Passed(c.device_interface, NULL)
            /\ a.assembler_name = Passed(c.assembler, "dense")
            /\ a.parameters = Passed(c.parameters, NULL)
            /\ DescriptorOf(i).precision = Passed(c.precision, NULL)

\* C9 witness: one call passed every optional argument, another none.
C9_Witness ==
    /\ \E i \in Ops : /\ ArgsOf(i).parameters = "prm"
                      /\ ArgsOf(i).assembler = "fmm"
                      /\ ArgsOf(i).device_interface = "dev"
                      /\ ArgsOf(i).precision = "single"
                      /\ AssemblerOf(i).parameters = "prm"
    /\ \E i \in Ops : /\ ArgsOf(i).parameters = NotPassed
                      /\ ArgsOf(i).assembler = NotPassed
                      /\ ArgsOf(i).device_interface = NotPassed
                      /\ ArgsOf(i).precision = NotPassed
                      /\ AssemblerOf(i).assembler_name = "dense"

(***************************************************************************)
(* Properties of the assembler's life cycle.                               *)
(***************************************************************************)
\* The step applies the operator wrapping assembler id.
AppliesTo(id) ==
    /\ result'.fn = "apply"
    /\ result'.args.operator \in 1..Len(operators)
    /\ operators[result'.args.operator].assembler = id

\* C5: the factory returns an unassembled assembler; an apply on an
\* unassembled assembler runs the assembly; an assembled assembler is never
\* assembled again; a faulted assembler stays faulted and every apply on it
\* raises the error its assembly raised; assembly runs at most once.
C5_AssembleOnce ==
    [][/\ \A id \in 1..Len(assemblers) :
            LET old == assemblers[id]
                new == assemblers'[id]
            IN  /\ new.assembly_runs <= 1
                /\ (old.state = "unassembled" /\ AppliesTo(id))
                      => /\ new.assembly_runs = 1
                         /\ new.state \in {"assembled", "faulted"}
                /\ old.state = "assembled"
                      => new = old
                /\ old.state = "faulted"
                      => /\ new = old
                         /\ AppliesTo(id)
                               => /\ result'.status = "error"
                                  /\ result'.error = old.error
       /\ \A id \in (Len(assemblers) + 1)..Len(assemblers') :
            /\ assemblers'[id].state = "unassembled"
            /\ assemblers'[id].assembly_runs = 0
      ]_vars

\* C5 witness: one assembler was assembled and has been applied again with
\* another vector, another is faulted and an apply on it has just failed.
C5_Witness ==
    /\ Len(assemblers) = 2
    /\ assemblers[1].state = "assembled"
    /\ assemblers[1].assembly_runs = 1
    /\ assemblers[2].state = "faulted"
    /\ assemblers[2].error = "OutOfMemory"
    /\ result.fn = "apply"
    /\ result.args.operator = 2
    /\ result.status = "error"
    /\ result.error = "OutOfMemory"

(***************************************************************************)
(* Properties of the example.                                              *)
(***************************************************************************)
Bound(name) == name \in DOMAIN objects

\* The operator a script variable holds is built by fn on sol[i].space.
BuiltOn(var, fn, i) ==
    Bound(var) =>
        /\ calls[objects[var]].fn = fn
        /\ AssemblerOf(objects[var]).space = Item(objects.sol, i).space

\* C8: the solve returns four grid functions, solution i in the space
\* right-hand side i was built on (A.range_spaces[i]); for scatterer j the
\* magnetic potential and far-field operators are built on the space of
\* sol[2j], the electric ones on the space of sol[2j+1].
C8_SolutionSpaces ==
    /\ Bound("sol") =>
          /\ Len(objects.sol) = 4
          /\ Len(objects.rhs) = 4
          /\ \A i \in 0..3 :
                /\ Item(objects.rhs, i).space = Item(objects.A.range_spaces, i)
                /\ Item(objects.rhs, i).dual_space
                      = Item(objects.A.dual_to_range_spaces, i)
                /\ Item(objects.sol, i).space = Item(objects.rhs, i).space
    /\ BuiltOn("mpot0_int", "magnetic_field", 0)
    /\ BuiltOn("epot0_int", "electric_field", 1)
    /\ BuiltOn("mpot0_ext", "magnetic_field", 0)
    /\ BuiltOn("epot0_ext", "electric_field", 1)
    /\ BuiltOn("mpot1_int", "magnetic_field", 2)
    /\ BuiltOn("epot1_int", "electric_field", 3)
    /\ BuiltOn("mpot1_ext", "magnetic_field", 2)
    /\ BuiltOn("epot1_ext", "electric_field", 3)
    /\ Bound("electric_far") =>
          /\ objects.electric_far.fn = "electric_field"
          /\ objects.magnetic_far.fn = "magnetic_field"
          /\ \E j \in 0..1 :
                /\ objects.i = j
                /\ objects.electric_far.space
                      = Item(objects.sol, 2 * j + 1).space
                /\ objects.magnetic_far.space
                      = Item(objects.sol, 2 * j).space

\* C8 witness: the script has run to its end; all eight potential
\* operators exist and the far-field operators of scatterer 1 are built.
C8_Witness ==
    /\ pc.at = "done"
    /\ Len(operators) = 8
    /\ Bound("epot1_ext")
    /\ Bound("electric_far")
    /\ objects.i = 1
    /\ objects.magnetic_far.space = "rwg0_sphere1"

AfterTotalField == pc.at \in {"angles", "far_field", "done"}

\* C10: the three masks are pairwise disjoint and cover every point; no
\* column of total_field is written twice, and when the three assignments
\* are done every column has been written exactly once: an exterior column
\* by the loop (scattered value plus plane wave), a column inside sphere 0
\* or 1 by that sphere's assignment; scattered_field holds a computed value
\* at the exterior points and NaN at every interior point.
C10_FieldsWrittenOnce ==
    /\ Bound("exterior_indices") =>
          \A n \in Columns(objects.points) :
             LET in0 == objects.interior_indices0[n]
                 in1 == objects.interior_indices1[n]
                 ext == objects.exterior_indices[n]
             IN  /\ in0 \/ in1 \/ ext
                 /\ ~(in0 /\ in1) /\ ~(in0 /\ ext) /\ ~(in1 /\ ext)
    /\ Bound("scattered_field") =>
          \A n \in Columns(objects.points) :
             IF objects.exterior_indices[n]
             THEN /\ objects.scattered_field[n].kind = "field"
                  /\ objects.scattered_field[n].at = objects.points.cols[n]
             ELSE objects.scattered_field[n] = NaN
    /\ \A n \in 1..Len(writes) : writes[n] <= 1
    /\ (Bound("total_field") /\ AfterTotalField) =>
          \A n \in Columns(objects.points) :
             /\ writes[n] = 1
             /\ objects.exterior_indices[n] =>
                   objects.total_field[n]
                      = [kind |-> "sum",
                         of   |-> <<objects.scattered_field[n],
                                    [kind |-> "plane_wave",
                                     at   |-> objects.points.cols[n]]>>]
             /\ objects.interior_indices0[n] =>
                   /\ objects.total_field[n] \in
                         {objects.interior_values0[k] :
                             k \in 1..Len(objects.interior_values0)}
                   /\ objects.total_field[n].at = objects.points.cols[n]
             /\ objects.interior_indices1[n] =>
                   /\ objects.total_field[n] \in
                         {objects.interior_values1[k] :
                             k \in 1..Len(objects.interior_values1)}
                   /\ objects.total_field[n].at = objects.points.cols[n]

\* C10 witness: the total field is complete on a grid with points inside
\* both spheres and outside, one of them a point on sphere 0 that rounding
\* put inside.
C10_Witness ==
    /\ AfterTotalField
    /\ \E n \in Columns(objects.points) : objects.interior_indices1[n]
    /\ \E n \in Columns(objects.points) : objects.exterior_indices[n]
    /\ \E n \in Ties(objects.points, centre0) : objects.interior_indices0[n]
    /\ \E n \in Columns(objects.points) :
          objects.total_field[n].kind = "sum"

=============================================================================
